---- MODULE Spec2Model ----
(***************************************************************************)
(* Model of create_IAU2000_WKT2.py and the wkt package: an IAU catalog     *)
(* (CSV rows of body radii and rotation sense) is turned into a list of    *)
(* CRS descriptors (ocentric, ographic and their projected variants).      *)
(*                                                                         *)
(* Encoding.                                                               *)
(*  - A numeric CSV token is a tuple: <<>> is the empty string, <<n>> is   *)
(*    the numeral n.  Radii are whole numbers of metres.                   *)
(*  - A value held by a WKTRecord is an option: None = <<>>, <<v>> = v.    *)
(*  - A Python float is the exact rational [n |-> num, d |-> den], d > 0.  *)
(*  - A Python string built by concatenation is the tuple of its pieces.   *)
(*  - A call that may raise returns [ok |-> TRUE, val |-> v] or            *)
(*    [ok |-> FALSE, err |-> <exception class>].                           *)
(***************************************************************************)
EXTENDS Integers, Sequences, FiniteSets, TLC

(***************************************************************************)
(* Bounds of the model.                                                    *)
(***************************************************************************)
MaxRows == 2      \* lines of a catalog file read by processFile (Spec)
MaxNaif == 2      \* largest NAIF identifier of a row
MaxAxis == 2      \* largest small radius (metres) of a row

(***************************************************************************)
(* Python values.                                                          *)
(***************************************************************************)
None == <<>>
Some(v) == <<v>>
Ok(v) == [ok |-> TRUE, val |-> v]
Raise(e) == [ok |-> FALSE, err |-> e]

Abs(x) == IF x < 0 THEN -x ELSE x

\* float(<int>) and the float literals of the source
Rat(num, den) == [n |-> num, d |-> den]
FloatOfInt(k) == Rat(k, 1)

\* default allowed_error of isEqual/isDifferent is 1e-9 = 1 / AllowedErrorInv
AllowedErrorInv == 1000000000

\* a radius large enough for a relative difference of one metre to fall
\* under the allowed error
BigAxis == 2 * AllowedErrorInv

(***************************************************************************)
(* wkt/WKT.py : numeric helpers                                            *)
(***************************************************************************)
\* abs(number1 - number2) <= allowed_error, on rationals.  With
\* x = |n1*d2 - n2*d1| and y = d1*d2 > 0:  x/y <= 1/E  <=>  x <= y \div E
\* (x is an integer), which avoids the product x*E.
isEqual(number1, number2) ==
    LET x == Abs(number1.n * number2.d - number2.n * number1.d)
        y == number1.d * number2.d
    IN  x <= (y \div AllowedErrorInv)

isDifferent(number1, number2) == ~ isEqual(number1, number2)

\* variant: the three axes pairwise different
isTriaxial_Pairwise(a, b, c) ==
    isDifferent(a, b) /\ isDifferent(a, c) /\ isDifferent(b, c)

isTriaxial(a, b, c) == isDifferent(a, b) /\ isDifferent(a, c)

\* (a - b) / a as a rational with positive denominator; a # 0
Flattening(a, b) ==
    IF a > 0 THEN Rat(a - b, a) ELSE Rat(b - a, -a)

\* 1.0 / f for f # 0
Inverse(f) ==
    IF f.n > 0 THEN Rat(f.d, f.n) ELSE Rat(-f.d, -f.n)

\* computeInverseFlattening(semiMajorAxis, semiMinorAxis) on numerals;
\* float(None) raises TypeError, a zero semi-major ZeroDivisionError
computeInverseFlattening(semiMajorAxis, semiMinorAxis) ==
    IF semiMajorAxis = None \/ semiMinorAxis = None THEN Raise("TypeError")
    ELSE IF semiMajorAxis[1] = 0 THEN Raise("ZeroDivisionError")
    ELSE LET flattening == Flattening(semiMajorAxis[1], semiMinorAxis[1])
         IN  IF isDifferent(flattening, FloatOfInt(0))
             THEN Ok(Inverse(flattening))
             ELSE Ok(flattening)

\* variant: an unrecognised rotation falls back to east instead of failing
getLongitudeOrderFromRotation_DefaultEast(rotation) ==
    IF rotation = None THEN Raise("TypeError")
    ELSE IF rotation[1] = "Direct" THEN Ok("west")
    ELSE Ok("east")

getLongitudeOrderFromRotation(rotation) ==
    IF rotation = None THEN Raise("TypeError")
    ELSE IF rotation[1] = "Direct" THEN Ok("west")
    ELSE IF rotation[1] = "Retrograde" THEN Ok("east")
    ELSE Raise("Exception")

(***************************************************************************)
(* wkt/models/record.py : WKTRecord over the Metadata columns              *)
(***************************************************************************)
\* setRecord: "" and "-1" become None, every other token is kept.  tokens is
\* the split CSV line [id, body, mean, semiMajor, axisB, semiMinor, rotation].
NumField(tok) == IF tok = <<>> \/ tok = <<-1>> THEN None ELSE tok
StrField(tok) == IF tok = "" \/ tok = "-1" THEN None ELSE Some(tok)

setRecord(tokens) ==
    [NAIF_ID    |-> NumField(tokens.id),
     BODY       |-> StrField(tokens.body),
     MEAN       |-> NumField(tokens.mean),
     SEMI_MAJOR |-> NumField(tokens.semiMajor),
     AXIS_B     |-> NumField(tokens.axisB),
     SEMI_MINOR |-> NumField(tokens.semiMinor),
     ROTATION   |-> StrField(tokens.rotation)]

(***************************************************************************)
(* wkt/WKT.py : the WKT base class and its subclasses                      *)
(***************************************************************************)
\* WKT.__init__ : the private fields of the base class; radius must be > 0.
\* majorAxis/minorAxis/axisB are set by the triaxial subclasses,
\* longitudeAxisOrder by the ographic ones, planetProjected/planetWKT by
\* ProjectedWKT; None where the class has no such field.
WKTInit(cls, geogcsName, datumName, sphereoidName, radius, inverseFlattening, authorityName, authorityCode, axes, longitudeAxisOrder, ppr, planetWKT) ==
    IF ~ (radius.n > 0) THEN Raise("AssertionError")
    ELSE Ok([cls                |-> cls,
             geogcsName         |-> geogcsName,
             datumName          |-> datumName,
             sphereoidName      |-> sphereoidName,
             radius             |-> radius,
             inverseFlattening  |-> inverseFlattening,
             authorityName      |-> authorityName,
             authorityCode      |-> authorityCode,
             axes               |-> axes,
             longitudeAxisOrder |-> longitudeAxisOrder,
             planetProjected    |-> ppr,
             planetWKT          |-> planetWKT])

\* the semi-axes kept by TriaxialOcentricWKT / TriaxialOgraphicWKT
Axes(rec) == Some([majorAxis |-> FloatOfInt(rec.SEMI_MAJOR[1]),
                   minorAxis |-> FloatOfInt(rec.SEMI_MINOR[1]),
                   axisB     |-> FloatOfInt(rec.AXIS_B[1])])

\* the names shared by OcentricFactory.create and OgraphicFactory.create
GeoGcsName(rec, pubYear, kind) == <<rec.BODY[1], " ", pubYear, kind>>
DatumName(rec, pubYear) == <<"D_", rec.BODY[1], "_", pubYear>>
EllipsoidName(rec, pubYear, authorityName) ==
    <<rec.BODY[1], "_", pubYear, "_", authorityName>>

\* isTriaxial(float(SEMI_MAJOR), float(SEMI_MINOR), float(AXIS_B)) of a record
\* whose three axes are numbers
RecordIsTriaxial(rec) ==
    isTriaxial(FloatOfInt(rec.SEMI_MAJOR[1]), FloatOfInt(rec.SEMI_MINOR[1]),
               FloatOfInt(rec.AXIS_B[1]))

(***************************************************************************)
(* wkt/ocentric/OcentricFactory.py                                         *)
(***************************************************************************)
OcentricGisCode(rec) == rec.NAIF_ID[1] * 100

\* variant: the ocentric code written in the format of the ographic one
OcentricAuthorityCode_WithPrefix(pubYear, gisCode) ==
    <<"IAU:", pubYear, ":", gisCode>>

OcentricAuthorityCode(pubYear, gisCode) == <<pubYear, ":", gisCode>>

\* variant: the ellipsoid ocentric CRS given the semi-major axis as radius
OcentricFactoryCreate_RadiusIsSemiMajor(rec, pubYear, authorityName) ==
    IF rec.NAIF_ID = None THEN Raise("TypeError")              \* int(None)
    ELSE IF rec.SEMI_MAJOR = None \/ rec.SEMI_MINOR = None \/ rec.AXIS_B = None
         THEN Raise("TypeError")                               \* float(None)
    ELSE IF rec.BODY = None THEN Raise("TypeError")            \* None + " "
    ELSE IF rec.MEAN = None THEN Raise("TypeError")            \* float(None)
    ELSE IF RecordIsTriaxial(rec)
    THEN WKTInit("TriaxialOcentricWKT",
                 GeoGcsName(rec, pubYear, " ocentric"),
                 DatumName(rec, pubYear),
                 EllipsoidName(rec, pubYear, authorityName),
                 FloatOfInt(rec.MEAN[1]),
                 FloatOfInt(0),
                 authorityName,
                 OcentricAuthorityCode(pubYear, OcentricGisCode(rec)),
                 Axes(rec), None, None, None)
    ELSE LET inv == computeInverseFlattening(rec.SEMI_MAJOR, rec.SEMI_MINOR)
         IN  IF ~ inv.ok THEN inv
             ELSE WKTInit("OcentricWKT",
                          GeoGcsName(rec, pubYear, " ocentric"),
                          DatumName(rec, pubYear),
                          EllipsoidName(rec, pubYear, authorityName),
                          FloatOfInt(rec.SEMI_MAJOR[1]),
                          inv.val,
                          authorityName,
                          OcentricAuthorityCode(pubYear, OcentricGisCode(rec)),
                          None, None, None, None)

\* variant: create also fails on a record without rotation
OcentricFactoryCreate_NeedsRotation(rec, pubYear, authorityName) ==
    IF rec.NAIF_ID = None \/ rec.ROTATION = None THEN Raise("TypeError")
    ELSE IF rec.SEMI_MAJOR = None \/ rec.SEMI_MINOR = None \/ rec.AXIS_B = None
         THEN Raise("TypeError")                               \* float(None)
    ELSE IF rec.BODY = None THEN Raise("TypeError")            \* None + " "
    ELSE IF rec.MEAN = None THEN Raise("TypeError")            \* float(None)
    ELSE IF RecordIsTriaxial(rec)
    THEN WKTInit("TriaxialOcentricWKT",
                 GeoGcsName(rec, pubYear, " ocentric"),
                 DatumName(rec, pubYear),
                 EllipsoidName(rec, pubYear, authorityName),
                 FloatOfInt(rec.MEAN[1]),
                 FloatOfInt(0),
                 authorityName,
                 OcentricAuthorityCode(pubYear, OcentricGisCode(rec)),
                 Axes(rec), None, None, None)
    ELSE LET inv == computeInverseFlattening(rec.SEMI_MAJOR, rec.SEMI_MINOR)
         IN  IF ~ inv.ok THEN inv
             ELSE WKTInit("OcentricWKT",
                          GeoGcsName(rec, pubYear, " ocentric"),
                          DatumName(rec, pubYear),
                          EllipsoidName(rec, pubYear, authorityName),
                          FloatOfInt(rec.MEAN[1]),
                          inv.val,
                          authorityName,
                          OcentricAuthorityCode(pubYear, OcentricGisCode(rec)),
                          None, None, None, None)

OcentricFactoryCreate(rec, pubYear, authorityName) ==
    IF rec.NAIF_ID = None THEN Raise("TypeError")              \* int(None)
    ELSE IF rec.SEMI_MAJOR = None \/ rec.SEMI_MINOR = None \/ rec.AXIS_B = None
         THEN Raise("TypeError")                               \* float(None)
    ELSE IF rec.BODY = None THEN Raise("TypeError")            \* None + " "
    ELSE IF rec.MEAN = None THEN Raise("TypeError")            \* float(None)
    ELSE IF RecordIsTriaxial(rec)
    THEN WKTInit("TriaxialOcentricWKT",
                 GeoGcsName(rec, pubYear, " ocentric"),
                 DatumName(rec, pubYear),
                 EllipsoidName(rec, pubYear, authorityName),
                 FloatOfInt(rec.MEAN[1]),
                 FloatOfInt(0),
                 authorityName,
                 OcentricAuthorityCode(pubYear, OcentricGisCode(rec)),
                 Axes(rec), None, None, None)
    ELSE LET inv == computeInverseFlattening(rec.SEMI_MAJOR, rec.SEMI_MINOR)
         IN  IF ~ inv.ok THEN inv
             ELSE WKTInit("OcentricWKT",
                          GeoGcsName(rec, pubYear, " ocentric"),
                          DatumName(rec, pubYear),
                          EllipsoidName(rec, pubYear, authorityName),
                          FloatOfInt(rec.MEAN[1]),
                          inv.val,
                          authorityName,
                          OcentricAuthorityCode(pubYear, OcentricGisCode(rec)),
                          None, None, None, None)

(***************************************************************************)
(* wkt/ocentric/OcentricWKT.py, wkt/ocentric/TriaxialOcentricWKT.py        *)
(* The text returned by getWKT is kept as the record of what the template  *)
(* holds: its fixed keywords and axis directions and the values put in.    *)
(***************************************************************************)
\* OcentricWKT.GEODCRS % (...)
OcentricGetWKT(w) ==
    [keyword   |-> "GEODCRS",
     name      |-> w.geogcsName,
     datum     |-> w.datumName,
     figure    |-> <<"ELLIPSOID", w.sphereoidName, w.radius, w.inverseFlattening>>,
     cs        |-> "spherical",
     latAxis   |-> "north",
     longAxis  |-> "east",
     distance  |-> w.radius,
     authority |-> <<w.authorityName, w.authorityCode>>]

\* TriaxialOcentricWKT.GEODCRS_TRIAXIAL % (...)
TriaxialOcentricGetWKT(w) ==
    [keyword   |-> "GEODCRS",
     name      |-> w.geogcsName,
     datum     |-> w.datumName,
     figure    |-> <<"TRIAXIAL", w.sphereoidName, w.axes[1].majorAxis,
                     w.axes[1].axisB, w.axes[1].minorAxis>>,
     cs        |-> "spherical",
     latAxis   |-> "north",
     longAxis  |-> "east",
     distance  |-> w.radius,
     authority |-> <<w.authorityName, w.authorityCode>>]

(***************************************************************************)
(* wkt/ographic/OgraphicFactory.py                                         *)
(***************************************************************************)
\* str.upper() on the body names of the model
Upper(s) ==
    CASE s = "Sun"  -> "SUN"
      [] s = "moon" -> "MOON"
      [] s = "Mars" -> "MARS"
      [] OTHER      -> s

isForbiddenToCreateWithRule1(rec) == rec.ROTATION = None

\* variant: the body name compared without upper()
isForbiddenToCreateWithRule2_CaseSensitive(rec) ==
    rec.BODY[1] \in {"SUN", "MOON"}

isForbiddenToCreateWithRule2(rec) == Upper(rec.BODY[1]) \in {"SUN", "MOON"}

\* variant: rule 3 forbids the sphere with the direct rotation
isForbiddenToCreateWithRule3_Direct(rec) ==
    LET flattening == computeInverseFlattening(rec.SEMI_MAJOR, rec.SEMI_MINOR)
    IN  IF ~ flattening.ok THEN flattening
        ELSE Ok(isEqual(flattening.val, FloatOfInt(0))
                /\ rec.ROTATION = Some("Direct"))

\* raises when computeInverseFlattening raises
isForbiddenToCreateWithRule3(rec) ==
    LET flattening == computeInverseFlattening(rec.SEMI_MAJOR, rec.SEMI_MINOR)
    IN  IF ~ flattening.ok THEN flattening
        ELSE Ok(isEqual(flattening.val, FloatOfInt(0))
                /\ rec.ROTATION = Some("Retrograde"))

\* [result, outputMessage]: val is 0 when allowed, else the number of the rule
isForbiddenToCreateOgraphic(rec) ==
    IF isForbiddenToCreateWithRule1(rec) THEN Ok(1)
    ELSE IF rec.BODY = None THEN Raise("AttributeError")       \* None.upper()
    ELSE IF isForbiddenToCreateWithRule2(rec) THEN Ok(2)
    ELSE LET r3 == isForbiddenToCreateWithRule3(rec)
         IN  IF ~ r3.ok THEN r3
             ELSE IF r3.val THEN Ok(3) ELSE Ok(0)

\* variant: the ographic code without its + 1
OgraphicGisCode_NoOffset(rec) == rec.NAIF_ID[1] * 100

OgraphicGisCode(rec) == rec.NAIF_ID[1] * 100 + 1

OgraphicAuthorityCode(pubYear, gisCode) == <<"IAU:", pubYear, ":", gisCode>>

\* variant: the triaxial ographic CRS given the mean radius as radius
OgraphicFactoryCreate_TriaxialMeanRadius(rec, pubYear, authorityName) ==
    LET forbidden == isForbiddenToCreateOgraphic(rec)
        order == getLongitudeOrderFromRotation(rec.ROTATION)
    IN  IF ~ forbidden.ok THEN forbidden
        ELSE IF forbidden.val # 0 THEN Raise("Exception")
        ELSE IF rec.NAIF_ID = None THEN Raise("TypeError")
        ELSE IF rec.SEMI_MAJOR = None \/ rec.SEMI_MINOR = None \/ rec.AXIS_B = None
             THEN Raise("TypeError")
        ELSE IF RecordIsTriaxial(rec)
        THEN IF ~ order.ok THEN order
             ELSE WKTInit("TriaxialOgraphicWKT",
                          GeoGcsName(rec, pubYear, " ographic"),
                          DatumName(rec, pubYear),
                          EllipsoidName(rec, pubYear, authorityName),
                          FloatOfInt(rec.MEAN[1]),
                          FloatOfInt(0),
                          authorityName,
                          OgraphicAuthorityCode(pubYear, OgraphicGisCode(rec)),
                          Axes(rec), Some(order.val), None, None)
        ELSE IF rec.MEAN = None THEN Raise("TypeError")
        ELSE LET inv == computeInverseFlattening(rec.SEMI_MAJOR, rec.SEMI_MINOR)
             IN  IF ~ inv.ok THEN inv
                 ELSE IF ~ order.ok THEN order
                 ELSE WKTInit("OgraphicWKT",
                              GeoGcsName(rec, pubYear, " ographic"),
                              DatumName(rec, pubYear),
                              EllipsoidName(rec, pubYear, authorityName),
                              FloatOfInt(rec.MEAN[1]),
                              inv.val,
                              authorityName,
                              OgraphicAuthorityCode(pubYear, OgraphicGisCode(rec)),
                              None, Some(order.val), None, None)

OgraphicFactoryCreate(rec, pubYear, authorityName) ==
    LET forbidden == isForbiddenToCreateOgraphic(rec)
        order == getLongitudeOrderFromRotation(rec.ROTATION)
    IN  IF ~ forbidden.ok THEN forbidden
        ELSE IF forbidden.val # 0 THEN Raise("Exception")
        ELSE IF rec.NAIF_ID = None THEN Raise("TypeError")
        ELSE IF rec.SEMI_MAJOR = None \/ rec.SEMI_MINOR = None \/ rec.AXIS_B = None
             THEN Raise("TypeError")
        ELSE IF RecordIsTriaxial(rec)
        THEN IF ~ order.ok THEN order
             ELSE WKTInit("TriaxialOgraphicWKT",
                          GeoGcsName(rec, pubYear, " ographic"),
                          DatumName(rec, pubYear),
                          EllipsoidName(rec, pubYear, authorityName),
                          FloatOfInt(1),
                          FloatOfInt(0),
                          authorityName,
                          OgraphicAuthorityCode(pubYear, OgraphicGisCode(rec)),
                          Axes(rec), Some(order.val), None, None)
        ELSE IF rec.MEAN = None THEN Raise("TypeError")
        ELSE LET inv == computeInverseFlattening(rec.SEMI_MAJOR, rec.SEMI_MINOR)
             IN  IF ~ inv.ok THEN inv
                 ELSE IF ~ order.ok THEN order
                 ELSE WKTInit("OgraphicWKT",
                              GeoGcsName(rec, pubYear, " ographic"),
                              DatumName(rec, pubYear),
                              EllipsoidName(rec, pubYear, authorityName),
                              FloatOfInt(rec.MEAN[1]),
                              inv.val,
                              authorityName,
                              OgraphicAuthorityCode(pubYear, OgraphicGisCode(rec)),
                              None, Some(order.val), None, None)

(***************************************************************************)
(* wkt/ographic/OgraphicWKT.py, wkt/ographic/TriaxialOgraphicWKT.py        *)
(***************************************************************************)
\* OgraphicWKT.GEOGCRS % (...)
OgraphicGetWKT(w) ==
    [keyword   |-> "GEOGCRS",
     name      |-> w.geogcsName,
     datum     |-> w.datumName,
     figure    |-> <<"ELLIPSOID", w.sphereoidName, w.radius, w.inverseFlattening>>,
     cs        |-> "ellipsoidal",
     latAxis   |-> "north",
     longAxis  |-> w.longitudeAxisOrder[1],
     authority |-> <<w.authorityName, w.authorityCode>>]

\* TriaxialOgraphicWKT.GEOGCRS_TRIAXIAL % (...); the direction of the
\* longitude axis is written between double quotes by this template
TriaxialOgraphicGetWKT(w) ==
    [keyword   |-> "GEOGCRS",
     name      |-> w.geogcsName,
     datum     |-> w.datumName,
     figure    |-> <<"TRIAXIAL", w.sphereoidName, w.axes[1].majorAxis,
                     w.axes[1].axisB, w.axes[1].minorAxis>>,
     cs        |-> "ellipsoidal",
     latAxis   |-> "north",
     longAxis  |-> <<"\"", w.longitudeAxisOrder[1], "\"">>,
     authority |-> <<w.authorityName, w.authorityCode>>]

(***************************************************************************)
(* wkt/projected/ProjectedWKT.py                                           *)
(***************************************************************************)
\* ProjectedWKT.Projection, in declaration order
Projection ==
    <<
       [name |-> "EQUIRECTANGULAR_0", code |-> 10, projection |-> "Equirectangular",
        isPolar |-> FALSE,
        parameters |-> << <<"False_Easting", "0">>,
                          <<"False_Northing", "0">>,
                          <<"Central_Meridian", "0">>,
                          <<"latitude_Of_Origin", "0">> >>],
       [name |-> "EQUIRECTANGULAR_180", code |-> 12, projection |-> "Equirectangular",
        isPolar |-> FALSE,
        parameters |-> << <<"False_Easting", "0">>,
                          <<"False_Northing", "0">>,
                          <<"Central_Meridian", "180">>,
                          <<"Latitude_Of_Origin", "0">> >>],
       [name |-> "SINUSOIDAL_0", code |-> 14, projection |-> "Sinusoidal",
        isPolar |-> FALSE,
        parameters |-> << <<"False_Easting", "0">>,
                          <<"False_Northing", "0">>,
                          <<"Longitude_Of_Center", "0">> >>],
       [name |-> "SINUSOIDAL_180", code |-> 16, projection |-> "Sinusoidal",
        isPolar |-> FALSE,
        parameters |-> << <<"False_Easting", "0">>,
                          <<"False_Northing", "0">>,
                          <<"Longitude_Of_Center", "180">> >>],
       [name |-> "STEREOGRAPHIC_NORTH", code |-> 18, projection |-> "Stereographic",
        isPolar |-> TRUE,
        parameters |-> << <<"False_Easting", "0">>,
                          <<"False_Northing", "0">>,
                          <<"Central_Meridian", "0">>,
                          <<"Scale_Factor", "1">>,
                          <<"Latitude_Of_Origin", "90">> >>],
       [name |-> "STEREOGRAPHIC_SOUTH", code |-> 20, projection |-> "Stereographic",
        isPolar |-> TRUE,
        parameters |-> << <<"False_Easting", "0">>,
                          <<"False_Northing", "0">>,
                          <<"Central_Meridian", "0">>,
                          <<"Scale_Factor", "1">>,
                          <<"Latitude_Of_Origin", "-90">> >>],
       [name |-> "MOLLWEIDE_0", code |-> 22, projection |-> "Mollweide",
        isPolar |-> FALSE,
        parameters |-> << <<"False_Easting", "0">>,
                          <<"False_Northing", "0">>,
                          <<"Central_Meridian", "0">> >>],
       [name |-> "MOLLWEIDE_180", code |-> 24, projection |-> "Mollweide",
        isPolar |-> FALSE,
        parameters |-> << <<"False_Easting", "0">>,
                          <<"False_Northing", "0">>,
                          <<"Central_Meridian", "180">> >>],
       [name |-> "ROBINSON_0", code |-> 26, projection |-> "Robinson",
        isPolar |-> FALSE,
        parameters |-> << <<"False_Easting", "0">>,
                          <<"False_Northing", "0">>,
                          <<"Longitude_Of_Center", "0">> >>],
       [name |-> "ROBINSON_180", code |-> 28, projection |-> "Robinson",
        isPolar |-> FALSE,
        parameters |-> << <<"False_Easting", "0">>,
                          <<"False_Northing", "0">>,
                          <<"Longitude_Of_Center", "180">> >>],
       [name |-> "AUTO_SINUSOIDAL", code |-> 60, projection |-> "Sinusoidal",
        isPolar |-> FALSE,
        parameters |-> << <<"False_Easting", "0">>,
                          <<"False_Northing", "0">>,
                          <<"Longitude_Of_Center", "0">> >>],
       [name |-> "AUTO_STEREOGRAPHIC", code |-> 62, projection |-> "Stereographic",
        isPolar |-> FALSE,
        parameters |-> << <<"False_Easting", "0">>,
                          <<"False_Northing", "0">>,
                          <<"Central_Meridian", "0">>,
                          <<"Scale_Factor", "1">>,
                          <<"Latitude_Of_Origin", "0">> >>],
       [name |-> "AUTO_TRANSVERSE_MERCATOR", code |-> 64, projection |-> "Transverse_Mercator",
        isPolar |-> FALSE,
        parameters |-> << <<"False_Easting", "0">>,
                          <<"False_Northing", "0">>,
                          <<"Central_Meridian", "0">>,
                          <<"Scale_Factor", "0.9996">>,
                          <<"Latitude_Of_Origin", "0">> >>],
       [name |-> "AUTO_ORTHOGRAPHIC", code |-> 66, projection |-> "Orthographic",
        isPolar |-> TRUE,
        parameters |-> << <<"False_Easting", "0">>,
                          <<"False_Northing", "0">>,
                          <<"Central_Meridian", "0">>,
                          <<"Latitude_Of_Origin", "90">> >>],
       [name |-> "AUTO_EQUIRECTANGULAR", code |-> 68, projection |-> "Equirectangular",
        isPolar |-> FALSE,
        parameters |-> << <<"False_Easting", "0">>,
                          <<"False_Northing", "0">>,
                          <<"Central_Meridian", "180">>,
                          <<"Latitude_Of_Origin", "0">> >>],
       [name |-> "AUTO_LAMBERT_CONFORMAL_CONIC", code |-> 70, projection |-> "Lambert_Conformal_Conic_2SP",
        isPolar |-> FALSE,
        parameters |-> << <<"False_Easting", "0">>,
                          <<"False_Northing", "0">>,
                          <<"Central_Meridian", "0">>,
                          <<"Standard_Parallel_1", "-20">>,
                          <<"Standard_Parallel_2", "20">>,
                          <<"Latitude_Of_Origin", "0">> >>],
       [name |-> "AUTO_LAMBERT_AZIMUTHAL_EQUAL", code |-> 72, projection |-> "Lambert_Azimuthal_Equal_Area",
        isPolar |-> TRUE,
        parameters |-> << <<"False_Easting", "0">>,
                          <<"False_Northing", "0">>,
                          <<"Longitude_Of_Center", "0">>,
                          <<"Latitude_Of_Center", "90">> >>],
       [name |-> "AUTO_MERCATOR", code |-> 74, projection |-> "Mercator_1SP",
        isPolar |-> FALSE,
        parameters |-> << <<"False_Easting", "0">>,
                          <<"False_Northing", "0">>,
                          <<"Central_Meridian", "0">>,
                          <<"Scale_Factor", "1">> >>],
       [name |-> "AUTO_ALBERS", code |-> 76, projection |-> "Albers_Conic_Equal_Area",
        isPolar |-> FALSE,
        parameters |-> << <<"False_Easting", "0">>,
                          <<"False_Northing", "0">>,
                          <<"Longitude_Of_Center", "0.0">>,
                          <<"Standard_Parallel_1", "60.0">>,
                          <<"Standard_Parallel_2", "20.0">>,
                          <<"Latitude_Of_Center", "40.0">> >>],
       [name |-> "AUTO_MOLLWEIDE", code |-> 80, projection |-> "Mollweide",
        isPolar |-> FALSE,
        parameters |-> << <<"False_Easting", "0">>,
                          <<"False_Northing", "0">>,
                          <<"Central_Meridian", "0.0">> >>],
       [name |-> "AUTO_ROBINSON", code |-> 82, projection |-> "Robinson",
        isPolar |-> FALSE,
        parameters |-> << <<"False_Easting", "0">>,
                          <<"False_Northing", "0">>,
                          <<"Longitude_of_center", "0.0">> >>]
    >>

\* the member of Projection of a given name
ProjectionByName(name) ==
    CHOOSE q \in {Projection[j] : j \in 1 .. Len(Projection)} : q.name = name

\* ProjectedWKT(ppr, planetWKT): the base-class fields are copied from the
\* wrapped CRS, the projection record is kept by reference
ProjectedWKTInit(ppr, planetWKT) ==
    WKTInit("ProjectedWKT", planetWKT.geogcsName, planetWKT.datumName,
            planetWKT.sphereoidName, planetWKT.radius,
            planetWKT.inverseFlattening, planetWKT.authorityName,
            planetWKT.authorityCode, None, None, Some(ppr), Some(planetWKT))

\* getAuthorityCode / getAuthorityName: overridden by ProjectedWKT to read the
\* projection record
getAuthorityCode(w) ==
    IF w.cls = "ProjectedWKT" THEN w.planetProjected[1].AUTHORITY_CODE
    ELSE w.authorityCode

getAuthorityName(w) ==
    IF w.cls = "ProjectedWKT" THEN w.planetProjected[1].AUTHORITY_NAME
    ELSE w.authorityName

\* getWKT of the four classes that are not projected
GeodeticGetWKT(w) ==
    CASE w.cls = "OcentricWKT"         -> OcentricGetWKT(w)
      [] w.cls = "TriaxialOcentricWKT" -> TriaxialOcentricGetWKT(w)
      [] w.cls = "OgraphicWKT"         -> OgraphicGetWKT(w)
      [] w.cls = "TriaxialOgraphicWKT" -> TriaxialOgraphicGetWKT(w)

\* variant: the PARAMETERs written from the last declared one to the first
ProjectedGetWKT_ReversedParameters(w) ==
    LET enum == ProjectionByName(w.planetProjected[1].PROJECTION_ENUM)
        n    == Len(enum.parameters)
    IN  [keyword    |-> "PROJCS",
         name       |-> w.planetProjected[1].PROJECTION_NAME,
         base       |-> GeodeticGetWKT(w.planetWKT[1]),
         projection |-> enum.projection,
         parameters |-> [k \in 1 .. n |-> enum.parameters[n + 1 - k]],
         authority  |-> <<getAuthorityName(w), getAuthorityCode(w)>>]

\* ProjectedWKT.getWKT: PROJCS % (projection name, getWKT of the wrapped CRS,
\* the PROJECTION, its PARAMETERs in declaration order, and the AUTHORITY of
\* the projection record)
ProjectedGetWKT(w) ==
    LET enum == ProjectionByName(w.planetProjected[1].PROJECTION_ENUM)
    IN  [keyword    |-> "PROJCS",
         name       |-> w.planetProjected[1].PROJECTION_NAME,
         base       |-> GeodeticGetWKT(w.planetWKT[1]),
         projection |-> enum.projection,
         parameters |-> enum.parameters,
         authority  |-> <<getAuthorityName(w), getAuthorityCode(w)>>]

getWKT(w) ==
    IF w.cls = "ProjectedWKT" THEN ProjectedGetWKT(w) ELSE GeodeticGetWKT(w)

\* WKT.getRecord, the abstract method: inherited by the classes that define
\* no getRecord of their own (OcentricWKT, TriaxialOgraphicWKT)
WKTGetRecord(w) == Raise("NotImplementedError")

\* TriaxialOcentricWKT.getRecord; "semiMajor" and "radius" both carry
\* getRadius()
TriaxialOcentricGetRecord(w) ==
    Ok([type          |-> <<"TRIAXIAL_OCENTRIC">>,
        geogcsName    |-> w.geogcsName,
        datumName     |-> w.datumName,
        ellpsoideName |-> w.sphereoidName,
        semiMajor     |-> w.radius,
        axisb         |-> w.axes[1].axisB,
        semiMinor     |-> w.axes[1].minorAxis,
        radius        |-> w.radius,
        authorityName |-> w.authorityName,
        authorityCode |-> w.authorityCode])

\* OgraphicWKT.getRecord
OgraphicGetRecord(w) ==
    Ok([type              |-> <<"OGRAPHIC">>,
        geogcsName        |-> w.geogcsName,
        datumName         |-> w.datumName,
        ellpsoideName     |-> w.sphereoidName,
        radius            |-> w.radius,
        inverseFlattening |-> w.inverseFlattening,
        authorityName     |-> w.authorityName,
        authorityCode     |-> w.authorityCode,
        longitudeOrder    |-> w.longitudeAxisOrder[1]])

\* getRecord of the four classes that are not projected
GeodeticGetRecord(w) ==
    CASE w.cls = "TriaxialOcentricWKT" -> TriaxialOcentricGetRecord(w)
      [] w.cls = "OgraphicWKT"         -> OgraphicGetRecord(w)
      [] OTHER                         -> WKTGetRecord(w)

\* ProjectedWKT.getRecord: the record of the wrapped CRS (an error raised
\* there propagates), four entries keyed by the ProjectedMetadata members
\* added, and "_PROJECTED" appended to the type
ProjectedGetRecord(w) ==
    LET record == GeodeticGetRecord(w.planetWKT[1])
    IN  IF ~ record.ok THEN record
        ELSE Ok(("type" :> (record.val.type \o <<"_PROJECTED">>))
                @@ ("ProjectedMetadata.PROJECTION_NAME" :> w.planetProjected[1].PROJECTION_NAME)
                @@ ("ProjectedMetadata.PROJECTION_ENUM" :> w.planetProjected[1].PROJECTION_ENUM)
                @@ ("ProjectedMetadata.AUTHORITY_CODE" :> getAuthorityCode(w))
                @@ ("ProjectedMetadata.AUTHORITY_NAME" :> getAuthorityName(w))
                @@ record.val)

getRecord(w) ==
    IF w.cls = "ProjectedWKT" THEN ProjectedGetRecord(w) ELSE GeodeticGetRecord(w)

(***************************************************************************)
(* create_IAU2000_WKT2.py : IAUCatalog                                     *)
(***************************************************************************)
\* the WKTRecord(ProjectedMetadata) filled in for one projection; one record
\* serves both the ocentric and the ographic projected CRS
PlanetaryProjected(rec, p, theYear, group) ==
    LET gisCode == rec.NAIF_ID[1] * 100 + p.code
    IN  [PROJECTION_ENUM |-> p.name,
         PROJECTION_NAME |-> <<rec.BODY[1], "_", p.projection>>,
         AUTHORITY_NAME  |-> group,
         AUTHORITY_CODE  |-> <<theYear, ":", gisCode>>]

Entry(rec, w, type) == [target |-> rec.BODY[1], wkt |-> w, type |-> type]

\* variant: the ographic projection built over the ocentric CRS
ProjectedPair_OgraphicOverOcentric(rec, ocentric, ographic, p, theYear, group) ==
    LET planetaryProjected == PlanetaryProjected(rec, p, theYear, group)
        ocentricProjection == ProjectedWKTInit(planetaryProjected, ocentric).val
    IN  IF ographic = None
        THEN << Entry(rec, ocentricProjection, "Projected ocentric") >>
        ELSE << Entry(rec, ocentricProjection, "Projected ocentric"),
                Entry(rec, ProjectedWKTInit(planetaryProjected, ocentric).val,
                      "Projected ographic") >>

\* variant: the ographic projection appended in front of the ocentric one
ProjectedPair_OgraphicFirst(rec, ocentric, ographic, p, theYear, group) ==
    LET planetaryProjected == PlanetaryProjected(rec, p, theYear, group)
        ocentricProjection == ProjectedWKTInit(planetaryProjected, ocentric).val
    IN  IF ographic = None
        THEN << Entry(rec, ocentricProjection, "Projected ocentric") >>
        ELSE << Entry(rec, ProjectedWKTInit(planetaryProjected, ographic[1]).val,
                      "Projected ographic"),
                Entry(rec, ocentricProjection, "Projected ocentric") >>

\* the body of the loop of __createProjectedCrs for projection p.  The
\* statement gisCode = gisCode + 1 in front of the ographic projection changes
\* a local that is not read again: both ProjectedWKT objects are given the
\* record planetaryProjected filled in before.
ProjectedPair(rec, ocentric, ographic, p, theYear, group) ==
    LET planetaryProjected == PlanetaryProjected(rec, p, theYear, group)
        ocentricProjection == ProjectedWKTInit(planetaryProjected, ocentric).val
    IN  IF ographic = None
        THEN << Entry(rec, ocentricProjection, "Projected ocentric") >>
        ELSE << Entry(rec, ocentricProjection, "Projected ocentric"),
                Entry(rec, ProjectedWKTInit(planetaryProjected, ographic[1]).val,
                      "Projected ographic") >>

RECURSIVE ProjectedFrom(_, _, _, _, _, _)
ProjectedFrom(i, rec, ocentric, ographic, theYear, group) ==
    IF i > Len(Projection) THEN << >>
    ELSE ProjectedPair(rec, ocentric, ographic, Projection[i], theYear, group)
         \o ProjectedFrom(i + 1, rec, ocentric, ographic, theYear, group)

\* variant: the loop misses the first member of Projection
createProjectedCrs_SkipFirst(rec, ocentric, ographic, theYear, group) ==
    ProjectedFrom(2, rec, ocentric, ographic, theYear, group)

\* __createProjectedCrs(recordIAU, ocentric, ographic); ographic is an option
createProjectedCrs(rec, ocentric, ographic, theYear, group) ==
    ProjectedFrom(1, rec, ocentric, ographic, theYear, group)

\* variant: the ocentric entry appended inside the try block, after
\* OgraphicFactory.create succeeded
processLine_OcentricInsideTry(tokens, theYear, group) ==
    LET record == setRecord(tokens)
        ocentric == OcentricFactoryCreate(record, theYear, group)
        ographic == OgraphicFactoryCreate(record, theYear, group)
    IN  IF ~ ocentric.ok THEN ocentric
        ELSE IF ographic.ok
        THEN Ok(<< Entry(record, ocentric.val, "Ocentric"),
                   Entry(record, ographic.val, "Ographic") >>
                \o createProjectedCrs(record, ocentric.val, Some(ographic.val),
                                      theYear, group))
        ELSE Ok(createProjectedCrs(record, ocentric.val, None, theYear, group))

\* variant: the failure of OgraphicFactory.create is not caught
processLine_NoCatch(tokens, theYear, group) ==
    LET record == setRecord(tokens)
        ocentric == OcentricFactoryCreate(record, theYear, group)
        ographic == OgraphicFactoryCreate(record, theYear, group)
    IN  IF ~ ocentric.ok THEN ocentric
        ELSE IF ~ ographic.ok THEN ographic
        ELSE Ok(<< Entry(record, ocentric.val, "Ocentric"),
                   Entry(record, ographic.val, "Ographic") >>
                \o createProjectedCrs(record, ocentric.val, Some(ographic.val),
                                      theYear, group))

\* variant: the except clause gives up the whole line
processLine_CatchDropsLine(tokens, theYear, group) ==
    LET record == setRecord(tokens)
        ocentric == OcentricFactoryCreate(record, theYear, group)
        ographic == OgraphicFactoryCreate(record, theYear, group)
    IN  IF ~ ocentric.ok THEN ocentric
        ELSE IF ographic.ok
        THEN Ok(<< Entry(record, ocentric.val, "Ocentric"),
                   Entry(record, ographic.val, "Ographic") >>
                \o createProjectedCrs(record, ocentric.val, Some(ographic.val),
                                      theYear, group))
        ELSE Ok(<< >>)

\* variant: a failure of OgraphicFactory.create ends the work on the line and
\* leaves the Ocentric entry alone in the list
processLine_OcentricAlone(tokens, theYear, group) ==
    LET record == setRecord(tokens)
        ocentric == OcentricFactoryCreate(record, theYear, group)
        ographic == OgraphicFactoryCreate(record, theYear, group)
    IN  IF ~ ocentric.ok THEN ocentric
        ELSE IF ographic.ok
        THEN Ok(<< Entry(record, ocentric.val, "Ocentric"),
                   Entry(record, ographic.val, "Ographic") >>
                \o createProjectedCrs(record, ocentric.val, Some(ographic.val),
                                      theYear, group))
        ELSE Ok(<< Entry(record, ocentric.val, "Ocentric") >>)

\* __processLine(tokens): the crs list of the line, or the exception raised.
\* A failure of OgraphicFactory.create is caught and leaves ographic = None.
processLine(tokens, theYear, group) ==
    LET record == setRecord(tokens)
        ocentric == OcentricFactoryCreate(record, theYear, group)
        ographic == OgraphicFactoryCreate(record, theYear, group)
    IN  IF ~ ocentric.ok THEN ocentric
        ELSE IF ographic.ok
        THEN Ok(<< Entry(record, ocentric.val, "Ocentric"),
                   Entry(record, ographic.val, "Ographic") >>
                \o createProjectedCrs(record, ocentric.val, Some(ographic.val),
                                      theYear, group))
        ELSE Ok(<< Entry(record, ocentric.val, "Ocentric") >>
                \o createProjectedCrs(record, ocentric.val, None, theYear, group))

\* __isInt on the identifier token: <<>> stands for any non-integer text
isInt(tok) == tok # <<>>

\* the test of processFile in front of __processLine, evaluated left to right
\* with short circuit: "skip" (line ignored), "process", or "raise" when
\* float() is reached on a token that is not a number
Validate(tokens) ==
    IF ~ isInt(tokens.id) THEN "skip"
    ELSE IF tokens.mean = <<>> THEN "raise"
    ELSE IF isEqual(FloatOfInt(tokens.mean[1]), FloatOfInt(-1)) THEN "skip"
    ELSE IF tokens.semiMajor = <<>> THEN "raise"
    ELSE IF isEqual(FloatOfInt(tokens.semiMajor[1]), FloatOfInt(-1)) THEN "skip"
    ELSE IF tokens.semiMinor = <<>> THEN "raise"
    ELSE IF isEqual(FloatOfInt(tokens.semiMinor[1]), FloatOfInt(-1)) THEN "skip"
    ELSE "process"

\* what one iteration of the loop of processFile adds to data; "raise" is
\* the only outcome that leaves the loop
LineOutcome(tokens, theYear, group) ==
    LET v == Validate(tokens)
        crs == processLine(tokens, theYear, group)
    IN  IF v = "raise" THEN [kind |-> "raise", crs |-> << >>]
        ELSE IF v = "skip" THEN [kind |-> "ignored", crs |-> << >>]
        ELSE IF ~ crs.ok THEN [kind |-> "error", crs |-> << >>]
        ELSE [kind |-> "crs", crs |-> crs.val]

\* the keys of IAUCatalog.REFERENCES: "IAU2000", "IAU2009", "IAU2015"
REFERENCES == {<<"IAU", "2000">>, <<"IAU", "2009">>, <<"IAU", "2015">>}

\* authorityCode.split(':')[0]
YearOfCode(authorityCode) ==
    IF authorityCode[1] = "IAU:" THEN "IAU" ELSE authorityCode[1]

\* the loop of saveAsWKT: a heading each time the target changes, then the
\* line "<authority code>,<WKT>" of the CRS
RECURSIVE WriteCrss(_, _)
WriteCrss(crss, target) ==
    IF crss = << >> THEN << >>
    ELSE LET crs == Head(crss)
             heading == [kind |-> "heading",
                         authority |-> getAuthorityName(crs.wkt),
                         target |-> crs.target]
             line == [kind |-> "crs",
                      code |-> getAuthorityCode(crs.wkt),
                      wkt |-> getWKT(crs.wkt)]
         IN  (IF crs.target # target THEN <<heading>> ELSE << >>)
             \o <<line>> \o WriteCrss(Tail(crss), crs.target)

\* variant: the reference block written after the CRS lines
saveAsWKT_HeaderLast(crss) ==
    IF crss = << >> THEN Raise("IndexError")
    ELSE LET authorityName == getAuthorityName(crss[1].wkt)
             year == YearOfCode(getAuthorityCode(crss[1].wkt))
             authority == <<authorityName, year>>
         IN  IF authority \notin REFERENCES THEN Raise("KeyError")
             ELSE Ok(WriteCrss(crss, "")
                     \o <<[kind |-> "references", key |-> authority]>>)

\* saveAsWKT(crss, filename): what is written, or the exception raised
\* before the first write (crss[0] on an empty list, or a missing key)
saveAsWKT(crss) ==
    IF crss = << >> THEN Raise("IndexError")
    ELSE LET authorityName == getAuthorityName(crss[1].wkt)
             year == YearOfCode(getAuthorityCode(crss[1].wkt))
             authority == <<authorityName, year>>
         IN  IF authority \notin REFERENCES THEN Raise("KeyError")
             ELSE Ok(<<[kind |-> "references", key |-> authority]>>
                     \o WriteCrss(crss, ""))

\* the year text taken from the file name by __ckeckFileNameAndGetYear
\* ("XXXX" is a name whose year part is not an integer) and int() of it
YearTokens == {"2000", "2009", "2015", "2016", "XXXX"}

YearIsInt(y) == y # "XXXX"

YearValue(y) ==
    CASE y = "2000" -> 2000
      [] y = "2009" -> 2009
      [] y = "2015" -> 2015
      [] y = "2016" -> 2016

\* variant: the test against 2015 left out
CatalogInit_NoLowerBound(y) ==
    IF ~ YearIsInt(y) THEN Raise("Exception")
    ELSE IF y = "2000" THEN Ok([group |-> "IAU_IAG", refsIAU |-> "IAU2000"])
    ELSE IF y = "2009" THEN Ok([group |-> "IAU", refsIAU |-> "IAU2009"])
    ELSE IF y = "2015" THEN Ok([group |-> "IAU", refsIAU |-> "IAU2015"])
    ELSE Raise("Exception")

\* IAUCatalog.__init__: __ckeckFileNameAndGetYear, the test against 2015 and
\* __initGroupAndRefsIAU; the group and reference block, or the exception
CatalogInit(y) ==
    IF ~ YearIsInt(y) THEN Raise("Exception")
    ELSE IF YearValue(y) < 2015 THEN Raise("Exception")
    ELSE IF y = "2000" THEN Ok([group |-> "IAU_IAG", refsIAU |-> "IAU2000"])
    ELSE IF y = "2009" THEN Ok([group |-> "IAU", refsIAU |-> "IAU2009"])
    ELSE IF y = "2015" THEN Ok([group |-> "IAU", refsIAU |-> "IAU2015"])
    ELSE Raise("Exception")

(***************************************************************************)
(* The catalog lines offered to processFile.                               *)
(***************************************************************************)
Numerals(S) == {<<n>> : n \in S}

IdTokens == {<<>>} \cup Numerals(-1 .. MaxNaif)
BodyTokens == {"", "Mars", "Sun", "moon"}
MeanTokens == {<<>>} \cup Numerals(-1 .. MaxAxis)
AxisTokens == {<<>>} \cup Numerals(-2 .. MaxAxis) \cup Numerals({BigAxis - 1, BigAxis})
AxisBTokens == {<<>>} \cup Numerals({-1}) \cup Numerals(1 .. MaxAxis)
RotationTokens == {"", "Direct", "Retrograde", "direct"}

\* every line over the tokens above: the lines of SpecRow
AllRows ==
    [id : IdTokens, body : BodyTokens, mean : MeanTokens,
     semiMajor : AxisTokens, axisB : AxisBTokens, semiMinor : AxisTokens,
     rotation : RotationTokens]

\* the lines of Spec, where a file has several lines: ellipsoid bodies with
\* an absent, a known or an unknown rotation; lines with a missing
\* identifier, a missing, unknown or null mean radius or an unknown
\* semi-major axis; a line with an unknown axisB
BatchRows ==
    [id : Numerals(1 .. MaxNaif), body : {"Mars"}, mean : {<<MaxAxis>>},
     semiMajor : {<<MaxAxis>>}, axisB : {<<MaxAxis>>}, semiMinor : {<<1>>},
     rotation : {"", "Direct", "direct"}]
    \cup
    [id : {<<>>, <<1>>}, body : {"Mars"}, mean : {<<>>, <<-1>>, <<0>>},
     semiMajor : {<<-1>>, <<MaxAxis>>}, axisB : {<<MaxAxis>>},
     semiMinor : {<<1>>}, rotation : {"Direct"}]
    \cup
    [id : {<<1>>}, body : {"Mars"}, mean : {<<MaxAxis>>},
     semiMajor : {<<MaxAxis>>}, axisB : {<<-1>>}, semiMinor : {<<1>>},
     rotation : {"direct"}]

(***************************************************************************)
(* State.                                                                  *)
(***************************************************************************)
VARIABLES
    pc,        \* "start", "ctorFailed", "processing", "aborted", "returned",
               \* "saved", "saveFailed", "exited"
    fileYear,  \* the year text of the name of the catalog file
    theYear,   \* IAUCatalog.__theYear
    group,     \* IAUCatalog.__group
    refsIAU,   \* IAUCatalog.__refsIAU, as the key of REFERENCES
    lines,     \* the lines of the file read so far by processFile
    blocks,    \* history: what each line read added to data
    data,      \* the list built by processFile
    output,    \* what saveAsWKT wrote to the output file
    exitStatus \* the exit status of the program, once it has ended

vars == <<pc, fileYear, theYear, group, refsIAU, lines, blocks, data, output,
         exitStatus>>

Init ==
    /\ pc = "start"
    /\ fileYear \in YearTokens
    /\ theYear = None
    /\ group = None
    /\ refsIAU = None
    /\ lines = << >>
    /\ blocks = << >>
    /\ data = << >>
    /\ output = << >>
    /\ exitStatus = None

\* IAUCatalog(file)
IAUCatalogInit ==
    /\ pc = "start"
    /\ LET r == CatalogInit(fileYear)
       IN  IF r.ok
           THEN /\ pc' = "processing"
                /\ theYear' = Some(fileYear)
                /\ group' = Some(r.val.group)
                /\ refsIAU' = Some(r.val.refsIAU)
           ELSE /\ pc' = "ctorFailed"
                /\ theYear' = IF YearIsInt(fileYear) THEN Some(fileYear) ELSE None
                /\ UNCHANGED <<group, refsIAU>>
    /\ UNCHANGED <<fileYear, lines, blocks, data, output, exitStatus>>

\* variant: the CRS of a line put in front of the list
ProcessFileLine_Prepend(Rows, maxLines) ==
    /\ pc = "processing"
    /\ Len(lines) < maxLines
    /\ \E tokens \in Rows :
         LET out == LineOutcome(tokens, theYear[1], group[1])
         IN  /\ lines' = Append(lines, tokens)
             /\ blocks' = Append(blocks, out)
             /\ data' = out.crs \o data
             /\ pc' = IF out.kind = "raise" THEN "aborted" ELSE "processing"
    /\ UNCHANGED <<fileYear, theYear, group, refsIAU, output, exitStatus>>

\* one iteration of the loop of processFile, on a line drawn from Rows
ProcessFileLine(Rows, maxLines) ==
    /\ pc = "processing"
    /\ Len(lines) < maxLines
    /\ \E tokens \in Rows :
         LET out == LineOutcome(tokens, theYear[1], group[1])
         IN  /\ lines' = Append(lines, tokens)
             /\ blocks' = Append(blocks, out)
             /\ data' = data \o out.crs
             /\ pc' = IF out.kind = "raise" THEN "aborted" ELSE "processing"
    /\ UNCHANGED <<fileYear, theYear, group, refsIAU, output, exitStatus>>

\* end of file: processFile returns data
ProcessFileReturn ==
    /\ pc = "processing"
    /\ pc' = "returned"
    /\ UNCHANGED <<fileYear, theYear, group, refsIAU, lines, blocks, data,
                   output, exitStatus>>

\* main: saveAs(wktList, outputFile, format) on the list returned
SaveAs ==
    /\ pc = "returned"
    /\ LET r == saveAsWKT(data)
       IN  IF r.ok
           THEN pc' = "saved" /\ output' = r.val
           ELSE pc' = "saveFailed" /\ UNCHANGED output
    /\ UNCHANGED <<fileYear, theYear, group, refsIAU, lines, blocks, data,
                   exitStatus>>

\* main: except Exception ... sys.exit(2), whatever raised in the try block
MainExcept ==
    /\ pc \in {"ctorFailed", "aborted", "saveFailed"}
    /\ pc' = "exited"
    /\ exitStatus' = Some(2)
    /\ UNCHANGED <<fileYear, theYear, group, refsIAU, lines, blocks, data,
                   output>>

\* main returns None: sys.exit(main(sys.argv)) ends with status 0
MainReturn ==
    /\ pc = "saved"
    /\ pc' = "exited"
    /\ exitStatus' = Some(0)
    /\ UNCHANGED <<fileYear, theYear, group, refsIAU, lines, blocks, data,
                   output>>

Next ==
    \/ IAUCatalogInit
    \/ ProcessFileLine(BatchRows, MaxRows)
    \/ ProcessFileReturn
    \/ SaveAs
    \/ MainExcept
    \/ MainReturn

Spec == Init /\ [][Next]_vars

\* a catalog of one line, over every line of AllRows
NextRow ==
    \/ IAUCatalogInit
    \/ ProcessFileLine(AllRows, 1)
    \/ ProcessFileReturn

SpecRow == Init /\ [][NextRow]_vars

(***************************************************************************)
(* Vocabulary of the properties.                                           *)
(***************************************************************************)
Read == 1 .. Len(lines)

\* the entries of a given type that line i added to data
EntriesOf(i, type) ==
    {k \in 1 .. Len(blocks[i].crs) : blocks[i].crs[k].type = type}

TypesOf(i) == [k \in 1 .. Len(blocks[i].crs) |-> blocks[i].crs[k].type]

\* a token that setRecord turns into None
AbsentNum(tok) == tok \in {<<>>, <<-1>>}
AbsentStr(tok) == tok \in {"", "-1"}

\* the line passed the test of processFile and was handed to __processLine
Validated(i) == Validate(lines[i]) = "process"

\* the three axes are numbers, the first differs from the two others
TriaxialRow(t) ==
    /\ t.semiMajor[1] # t.semiMinor[1]
    /\ t.semiMajor[1] # t.axisB[1]

\* a validated line from which an ocentric CRS can be built
OcentricBuildable(t) ==
    /\ ~ AbsentNum(t.id)
    /\ ~ AbsentStr(t.body)
    /\ ~ AbsentNum(t.axisB)
    /\ t.mean[1] > 0
    /\ (t.semiMajor[1] # 0 \/ TriaxialRow(t))

\* the three suppression rules, on the tokens of a line
Rule1Holds(t) == AbsentStr(t.rotation)
Rule2Holds(t) == t.body \in {"Sun", "sun", "SUN", "Moon", "moon", "MOON"}
Rule3Holds(t) ==
    /\ t.semiMajor[1] # 0
    /\ isEqual(computeInverseFlattening(t.semiMajor, t.semiMinor).val, FloatOfInt(0))
    /\ t.rotation = "Retrograde"
NoRuleHolds(t) == ~ Rule1Holds(t) /\ ~ Rule2Holds(t) /\ ~ Rule3Holds(t)

\* <<"Projected ocentric", ...>>, one per projection kind
OcentricOnlyTypes ==
    [k \in 1 .. Len(Projection) + 1 |->
        IF k = 1 THEN "Ocentric" ELSE "Projected ocentric"]

(***************************************************************************)
(* C1 (as stated): every line that passes the validation of processFile    *)
(* adds exactly one Ocentric descriptor to the list.                       *)
(***************************************************************************)
C1_EveryValidatedRowHasOcentric ==
    \A i \in Read : Validated(i) => Cardinality(EntriesOf(i, "Ocentric")) = 1

(***************************************************************************)
(* C1 (amended): a validated line adds exactly one Ocentric descriptor,    *)
(* its first entry, when its identifier, body and axisB are present, its   *)
(* mean radius is > 0 and its semi-major axis is not 0 unless the body is  *)
(* triaxial; any other line adds no descriptor at all.                     *)
(***************************************************************************)
C1_OneOcentricPerBuildableRow ==
    \A i \in Read :
        IF Validated(i) /\ OcentricBuildable(lines[i])
        THEN /\ EntriesOf(i, "Ocentric") = {1}
             /\ blocks[i].crs[1].wkt.cls \in {"OcentricWKT", "TriaxialOcentricWKT"}
        ELSE blocks[i].crs = << >>

C1_Witness ==
    \E i \in Read :
        /\ Validated(i) /\ OcentricBuildable(lines[i])
        /\ lines[i].semiMajor[1] = 0
        /\ EntriesOf(i, "Ocentric") = {1}
        /\ blocks[i].crs[1].wkt.cls = "TriaxialOcentricWKT"

(***************************************************************************)
(* C2 (as stated): a validated line has an Ographic descriptor exactly     *)
(* when none of the three suppression rules holds.                         *)
(***************************************************************************)
C2_OgraphicIffNoRule ==
    \A i \in Read :
        Validated(i) =>
            (EntriesOf(i, "Ographic") # {} <=> NoRuleHolds(lines[i]))

(***************************************************************************)
(* C2 (amended): for a validated line that has an Ocentric descriptor,     *)
(* whose rotation is absent, "Direct" or "Retrograde" and whose semi-major *)
(* axis is not 0, there is an Ographic descriptor -- exactly one, the      *)
(* second entry -- if and only if none of the three rules holds.           *)
(***************************************************************************)
C2_OgraphicIffNoRuleForKnownRotation ==
    \A i \in Read :
        ( /\ Validated(i)
          /\ EntriesOf(i, "Ocentric") # {}
          /\ lines[i].rotation \in {"", "-1", "Direct", "Retrograde"}
          /\ lines[i].semiMajor[1] # 0 )
        => IF NoRuleHolds(lines[i])
           THEN EntriesOf(i, "Ographic") = {2}
           ELSE EntriesOf(i, "Ographic") = {}

\* rule 3 alone suppresses the ographic CRS of a body that is a sphere only
\* within the allowed error
C2_Witness ==
    \E i \in Read :
        /\ Validated(i)
        /\ EntriesOf(i, "Ocentric") # {}
        /\ lines[i].rotation = "Retrograde"
        /\ lines[i].semiMajor[1] = BigAxis
        /\ lines[i].semiMinor[1] = BigAxis - 1
        /\ ~ Rule2Holds(lines[i])
        /\ EntriesOf(i, "Ographic") = {}

(***************************************************************************)
(* C3: when OgraphicFactory.create fails on a suppression rule, the line   *)
(* still adds its Ocentric descriptor followed by one projected-ocentric   *)
(* descriptor per projection kind, and no Ographic or projected-ographic   *)
(* descriptor.                                                             *)
(***************************************************************************)
C3_SuppressionIsCaughtInsideRow ==
    \A i \in Read :
        ( /\ Validated(i)
          /\ OcentricBuildable(lines[i])
          /\ ~ NoRuleHolds(lines[i]) )
        => /\ blocks[i].kind = "crs"
           /\ TypesOf(i) = OcentricOnlyTypes
           /\ \A k \in 2 .. Len(blocks[i].crs) :
                  blocks[i].crs[k].wkt.planetWKT = Some(blocks[i].crs[1].wkt)

C3_Witness ==
    \E i \in Read :
        /\ Validated(i) /\ OcentricBuildable(lines[i])
        /\ Rule2Holds(lines[i])
        /\ lines[i].rotation = "Direct"
        /\ TypesOf(i) = OcentricOnlyTypes

(***************************************************************************)
(* C4: no line makes processFile abort: whatever fails while a line is     *)
(* validated or built, the line is skipped and the loop goes on.           *)
(***************************************************************************)
C4_NoRowAbortsTheBatch ==
    /\ pc # "aborted"
    /\ \A i \in Read : blocks[i].kind \in {"ignored", "error", "crs"}

(***************************************************************************)
(* C5: a line whose identifier is not an integer, or whose mean radius,    *)
(* semi-major or semi-minor axis is the sentinel -1, adds no descriptor    *)
(* and is skipped without an error leaving processFile.                    *)
(***************************************************************************)
RejectedRow(t) ==
    \/ ~ isInt(t.id)
    \/ t.mean = <<-1>>
    \/ t.semiMajor = <<-1>>
    \/ t.semiMinor = <<-1>>

C5_RejectedRowsAreSkipped ==
    \A i \in Read :
        RejectedRow(lines[i]) =>
            /\ blocks[i].crs = << >>
            /\ blocks[i].kind = "ignored"

(***************************************************************************)
(* C6: the authorityCode of every projected-ographic descriptor carries    *)
(* naifId*100 + offset + 1, one more than the naifId*100 + offset of the   *)
(* projected-ocentric descriptor in front of it.                           *)
(***************************************************************************)
ProjectionOf(w) ==
    CHOOSE q \in {Projection[j] : j \in 1 .. Len(Projection)} :
        q.name = w.planetProjected[1].PROJECTION_ENUM

C6_ProjectedOgraphicCodeIsSiblingPlusOne ==
    \A i \in Read : \A k \in EntriesOf(i, "Projected ographic") :
        LET w == blocks[i].crs[k].wkt
            sibling == blocks[i].crs[k - 1].wkt
            base == lines[i].id[1] * 100 + ProjectionOf(w).code
        IN  /\ blocks[i].crs[k - 1].type = "Projected ocentric"
            /\ getAuthorityCode(sibling) = <<theYear[1], ":", base>>
            /\ getAuthorityCode(w) = <<theYear[1], ":", base + 1>>

(***************************************************************************)
(* C7: in the list returned for a catalog whose lines have pairwise        *)
(* distinct identifiers, no two descriptors carry the same authorityCode.  *)
(***************************************************************************)
DistinctNaifIds == \A i, j \in Read : i # j => lines[i].id # lines[j].id

C7_AuthorityCodesAreUnique ==
    (pc = "returned" /\ DistinctNaifIds) =>
        \A j, k \in 1 .. Len(data) :
            j # k => getAuthorityCode(data[j].wkt) # getAuthorityCode(data[k].wkt)

(***************************************************************************)
(* C8: every Ocentric descriptor, ellipsoid or triaxial, has authorityCode *)
(* "<year>:<naifId*100>", name "<body> <year> ocentric", datum             *)
(* "D_<body>_<year>" and ellipsoid "<body>_<year>_<group>".                *)
(***************************************************************************)
C8_OcentricNaming ==
    \A i \in Read : \A k \in EntriesOf(i, "Ocentric") :
        LET w == blocks[i].crs[k].wkt
            t == lines[i]
        IN  /\ w.cls \in {"OcentricWKT", "TriaxialOcentricWKT"}
            /\ getAuthorityCode(w) = <<theYear[1], ":", t.id[1] * 100>>
            /\ w.geogcsName = <<t.body, " ", theYear[1], " ocentric">>
            /\ w.datumName = <<"D_", t.body, "_", theYear[1]>>
            /\ w.sphereoidName = <<t.body, "_", theYear[1], "_", group[1]>>

C8_Witness ==
    \E i \in Read : \E k \in EntriesOf(i, "Ocentric") :
        /\ blocks[i].crs[k].wkt.cls = "TriaxialOcentricWKT"
        /\ lines[i].id[1] = MaxNaif
        /\ getAuthorityCode(blocks[i].crs[k].wkt) = <<"2015", ":", MaxNaif * 100>>

(***************************************************************************)
(* C9: every Ographic descriptor, ellipsoid or triaxial, has authorityCode *)
(* "IAU:<year>:<naifId*100+1>", a gisCode one more than that of the        *)
(* Ocentric descriptor of its line, and name "<body> <year> ographic".     *)
(***************************************************************************)
C9_OgraphicNaming ==
    \A i \in Read : \A k \in EntriesOf(i, "Ographic") :
        LET w == blocks[i].crs[k].wkt
            ocentric == blocks[i].crs[1].wkt
            t == lines[i]
        IN  /\ w.cls \in {"OgraphicWKT", "TriaxialOgraphicWKT"}
            /\ getAuthorityCode(w) = <<"IAU:", theYear[1], ":", t.id[1] * 100 + 1>>
            /\ blocks[i].crs[1].type = "Ocentric"
            /\ getAuthorityCode(w)[4] = getAuthorityCode(ocentric)[3] + 1
            /\ w.geogcsName = <<t.body, " ", theYear[1], " ographic">>

C9_Witness ==
    \E i \in Read : \E k \in EntriesOf(i, "Ographic") :
        /\ blocks[i].crs[k].wkt.cls = "TriaxialOgraphicWKT"
        /\ lines[i].id[1] = MaxNaif
        /\ getAuthorityCode(blocks[i].crs[k].wkt) = <<"IAU:", "2015", ":", MaxNaif * 100 + 1>>

(***************************************************************************)
(* C10: getLongitudeOrderFromRotation maps "Direct" to west, "Retrograde"  *)
(* to east and fails on any other value, and every Ographic descriptor     *)
(* carries the direction mapped from the rotation of its line.             *)
(***************************************************************************)
C10_LongitudeFollowsRotation ==
    /\ getLongitudeOrderFromRotation(Some("Direct")) = Ok("west")
    /\ getLongitudeOrderFromRotation(Some("Retrograde")) = Ok("east")
    /\ \A r \in RotationTokens \ {"Direct", "Retrograde"} :
           ~ getLongitudeOrderFromRotation(StrField(r)).ok
    /\ \A i \in Read : \A k \in EntriesOf(i, "Ographic") :
           LET w == blocks[i].crs[k].wkt
           IN  \/ lines[i].rotation = "Direct" /\ w.longitudeAxisOrder = Some("west")
               \/ lines[i].rotation = "Retrograde" /\ w.longitudeAxisOrder = Some("east")

C10_Witness ==
    \E i \in Read : \E k \in EntriesOf(i, "Ographic") :
        /\ lines[i].rotation = "Retrograde"
        /\ blocks[i].crs[k].wkt.longitudeAxisOrder = Some("east")

(***************************************************************************)
(* C11 (as stated): a validated line, of positive identifier and radii,    *)
(* whose rotation is present but is neither "Direct" nor "Retrograde" adds *)
(* its Ocentric descriptor and one projected-ocentric descriptor per       *)
(* projection kind, no Ographic or projected-ographic descriptor, and does *)
(* not end the loop.                                                       *)
(***************************************************************************)
UnknownRotation(t) ==
    ~ AbsentStr(t.rotation) /\ t.rotation \notin {"Direct", "Retrograde"}

\* identifier, mean radius, semi-major and semi-minor axis all > 0
PositiveRow(t) ==
    /\ t.id # <<>> /\ t.id[1] > 0
    /\ t.mean # <<>> /\ t.mean[1] > 0
    /\ t.semiMajor # <<>> /\ t.semiMajor[1] > 0
    /\ t.semiMinor # <<>> /\ t.semiMinor[1] > 0

C11_UnknownRotationKeepsOcentric ==
    \A i \in Read :
        (Validated(i) /\ PositiveRow(lines[i]) /\ UnknownRotation(lines[i]))
        => /\ blocks[i].kind = "crs"
           /\ TypesOf(i) = OcentricOnlyTypes

(***************************************************************************)
(* C11 (amended): a validated line from which an Ocentric descriptor is    *)
(* built and whose rotation is present but is neither "Direct" nor         *)
(* "Retrograde" adds its Ocentric descriptor and one projected-ocentric    *)
(* descriptor per projection kind, each over that Ocentric descriptor, no  *)
(* Ographic or projected-ographic descriptor, and the loop goes on to the  *)
(* next line.                                                              *)
(***************************************************************************)
C11_UnknownRotationKeepsBuiltOcentric ==
    \A i \in Read :
        (Validated(i) /\ OcentricBuildable(lines[i]) /\ UnknownRotation(lines[i]))
        => /\ blocks[i].kind = "crs"
           /\ TypesOf(i) = OcentricOnlyTypes
           /\ \A k \in 2 .. Len(blocks[i].crs) :
                  blocks[i].crs[k].wkt.planetWKT = Some(blocks[i].crs[1].wkt)
           /\ (i = Len(lines) =>
                  /\ pc \notin {"aborted", "saveFailed"}
                  /\ pc = "exited" => exitStatus = Some(0))

\* a line of unknown rotation followed by a line that adds its own CRS
C11_Witness ==
    \E i \in Read :
        /\ i < Len(lines)
        /\ Validated(i) /\ OcentricBuildable(lines[i])
        /\ lines[i].rotation = "direct"
        /\ TypesOf(i) = OcentricOnlyTypes
        /\ EntriesOf(i + 1, "Ographic") = {2}
        /\ Len(data) = Len(blocks[i].crs) + Len(blocks[i + 1].crs)

(***************************************************************************)
(* C12: the Ocentric descriptor of a line does not depend on its rotation: *)
(* the same line with any other rotation gives the same Ocentric           *)
(* descriptor, or none as well, and the longitude axis written by getWKT   *)
(* of an Ocentric descriptor is east.                                      *)
(***************************************************************************)
\* the Ocentric entries of the line t
OcentricOf(t) ==
    LET out == LineOutcome(t, theYear[1], group[1])
    IN  {out.crs[k] : k \in {j \in 1 .. Len(out.crs) : out.crs[j].type = "Ocentric"}}

\* getWKT of an Ocentric descriptor
OcentricText(w) ==
    IF w.cls = "TriaxialOcentricWKT" THEN TriaxialOcentricGetWKT(w)
    ELSE OcentricGetWKT(w)

C12_OcentricIgnoresRotation ==
    \A i \in Read :
        /\ \A r \in RotationTokens :
               OcentricOf([lines[i] EXCEPT !.rotation = r])
                   = {blocks[i].crs[k] : k \in EntriesOf(i, "Ocentric")}
        /\ \A k \in EntriesOf(i, "Ocentric") :
               /\ blocks[i].crs[k].wkt.longitudeAxisOrder = None
               /\ OcentricText(blocks[i].crs[k].wkt).longAxis = "east"

\* a Direct body, whose Ographic descriptor points west, with the Ocentric
\* descriptor of the same line without rotation
C12_Witness ==
    \E i \in Read :
        /\ lines[i].rotation = "Direct"
        /\ EntriesOf(i, "Ocentric") = {1}
        /\ EntriesOf(i, "Ographic") = {2}
        /\ blocks[i].crs[2].wkt.longitudeAxisOrder = Some("west")
        /\ OcentricText(blocks[i].crs[1].wkt).longAxis = "east"
        /\ OcentricOf([lines[i] EXCEPT !.rotation = ""]) = {blocks[i].crs[1]}

(***************************************************************************)
(* C13: the list built by processFile follows the order of the lines: it   *)
(* is the descriptors of the first line, then those of the second, and so  *)
(* on, so every descriptor of a line comes before every descriptor of a    *)
(* later line.                                                             *)
(***************************************************************************)
RECURSIVE BlocksInOrder(_)
BlocksInOrder(bs) ==
    IF bs = << >> THEN << >> ELSE bs[1].crs \o BlocksInOrder(Tail(bs))

\* the number of descriptors added by the lines in front of line i
Offset(i) == Len(BlocksInOrder(SubSeq(blocks, 1, i - 1)))

C13_ListFollowsRowOrder ==
    /\ data = BlocksInOrder(blocks)
    /\ \A i, j \in Read :
           i < j => \A k \in 1 .. Len(blocks[i].crs), l \in 1 .. Len(blocks[j].crs) :
                       /\ Offset(i) + k < Offset(j) + l
                       /\ data[Offset(i) + k] = blocks[i].crs[k]
                       /\ data[Offset(j) + l] = blocks[j].crs[l]

\* two lines of different bodies that both add descriptors
C13_Witness ==
    /\ pc = "returned"
    /\ Len(lines) = 2
    /\ lines[1].id = <<MaxNaif>> /\ lines[2].id = <<1>>
    /\ blocks[1].crs # << >> /\ blocks[2].crs # << >>
    /\ getAuthorityCode(data[1].wkt) = <<"2015", ":", MaxNaif * 100>>
    /\ getAuthorityCode(data[Len(blocks[1].crs) + 1].wkt) = <<"2015", ":", 100>>

(***************************************************************************)
(* C15: a line that adds descriptors adds exactly one projected-ocentric   *)
(* descriptor per member of Projection, and exactly one projected-ographic *)
(* descriptor per member when it has an Ographic descriptor, none          *)
(* otherwise; ProjectedWKT over an Ocentric or Ographic descriptor that    *)
(* was built does not fail.                                                *)
(***************************************************************************)
\* the entries of line i of a given type built for projection p
ProjectedEntries(i, type, p) ==
    {k \in EntriesOf(i, type) :
        blocks[i].crs[k].wkt.planetProjected = Some(p)}

C15_OneProjectedPerKind ==
    \A i \in Read :
        blocks[i].crs # << >> =>
            /\ \A j \in 1 .. Len(Projection) :
                LET ppr == PlanetaryProjected(setRecord(lines[i]), Projection[j],
                                              theYear[1], group[1])
                IN  /\ Cardinality(ProjectedEntries(i, "Projected ocentric", ppr)) = 1
                    /\ Cardinality(ProjectedEntries(i, "Projected ographic", ppr))
                           = IF EntriesOf(i, "Ographic") # {} THEN 1 ELSE 0
                    /\ \A k \in EntriesOf(i, "Ocentric") \cup EntriesOf(i, "Ographic") :
                           ProjectedWKTInit(ppr, blocks[i].crs[k].wkt).ok
            /\ Cardinality(EntriesOf(i, "Projected ocentric")) = Len(Projection)
            /\ Cardinality(EntriesOf(i, "Projected ographic"))
                   \in {0, Len(Projection)}

\* a triaxial body with its Ographic descriptor: 2 + 2 * 21 descriptors
C15_Witness ==
    \E i \in Read :
        /\ EntriesOf(i, "Ographic") = {2}
        /\ blocks[i].crs[2].wkt.cls = "TriaxialOgraphicWKT"
        /\ Len(blocks[i].crs) = 2 + 2 * Len(Projection)
        /\ blocks[i].crs[Len(blocks[i].crs)].type = "Projected ographic"
        /\ blocks[i].crs[Len(blocks[i].crs)].wkt.planetWKT = Some(blocks[i].crs[2].wkt)

(***************************************************************************)
(* C16: isTriaxial(semiMajor, semiMinor, axisB) is true exactly when       *)
(* semiMajor differs from semiMinor and from axisB by more than the        *)
(* allowed error; axisB is not compared with semiMinor, so (a,a,a),        *)
(* (a,c,a) and (a,a,b) are not triaxial.  It is stated on the axes of      *)
(* every line that reaches the factories, whose Ocentric descriptor is the *)
(* triaxial variant exactly in that case, and on values that are closer    *)
(* than the allowed error.                                                 *)
(***************************************************************************)
\* 1, 2, 1 + 5e-10 and 1 + 2e-9
One == FloatOfInt(1)
Two == FloatOfInt(2)
Near == Rat(2 * AllowedErrorInv + 1, 2 * AllowedErrorInv)
Far == Rat(AllowedErrorInv + 2, AllowedErrorInv)

\* the three axes of line i as floats, when the three are numbers
AxesAreNumbers(t) ==
    ~ AbsentNum(t.semiMajor) /\ ~ AbsentNum(t.semiMinor) /\ ~ AbsentNum(t.axisB)

C16_TriaxialIffMajorDiffersFromBoth ==
    /\ ~ isTriaxial(One, Near, Two) /\ ~ isTriaxial(One, Two, Near)
    /\ ~ isTriaxial(Near, One, One) /\ ~ isTriaxial(Near, One, Two)
    /\ isTriaxial(One, Far, Two) /\ isTriaxial(Far, One, One)
    /\ \A i \in Read :
           AxesAreNumbers(lines[i]) =>
               LET a == lines[i].semiMajor[1]
                   c == lines[i].semiMinor[1]
                   b == lines[i].axisB[1]
                   r == isTriaxial(FloatOfInt(a), FloatOfInt(c), FloatOfInt(b))
               IN  /\ r <=> (a # c /\ a # b)
                   /\ (a = c \/ a = b) => ~ r
                   /\ \A k \in EntriesOf(i, "Ocentric") :
                          r <=> blocks[i].crs[k].wkt.cls = "TriaxialOcentricWKT"

\* semiMajor differs from axisB and semiMinor, which are equal: triaxial
C16_Witness ==
    \E i \in Read :
        /\ lines[i].semiMajor = <<MaxAxis>>
        /\ lines[i].semiMinor = <<1>> /\ lines[i].axisB = <<1>>
        /\ EntriesOf(i, "Ocentric") = {1}
        /\ blocks[i].crs[1].wkt.cls = "TriaxialOcentricWKT"

(***************************************************************************)
(* C17: for semiMajor > 0, computeInverseFlattening returns 1/flattening,  *)
(* flattening = (semiMajor - semiMinor)/semiMajor, when the flattening is  *)
(* different from 0, and exactly 0 when the body is taken for a sphere;    *)
(* the ellipsoid Ocentric descriptor of the line carries that value.       *)
(***************************************************************************)
C17_InverseOfFlatteningOrZero ==
    \A i \in Read :
        ( /\ ~ AbsentNum(lines[i].semiMajor) /\ ~ AbsentNum(lines[i].semiMinor)
          /\ lines[i].semiMajor[1] > 0 )
        => LET flattening == Flattening(lines[i].semiMajor[1], lines[i].semiMinor[1])
               r == computeInverseFlattening(lines[i].semiMajor, lines[i].semiMinor)
           IN  /\ r.ok
               /\ IF isDifferent(flattening, FloatOfInt(0))
                  THEN r.val = Inverse(flattening)
                  ELSE r.val.n = 0
               /\ \A k \in EntriesOf(i, "Ocentric") :
                      blocks[i].crs[k].wkt.cls = "OcentricWKT"
                          => blocks[i].crs[k].wkt.inverseFlattening = r.val

(***************************************************************************)
(* C18: computeInverseFlattening returns no value when semiMajor is zero   *)
(* or negative, and a validated line with semiMajor <= 0 on which the      *)
(* flattening is computed -- for the ellipsoid Ocentric descriptor, or for *)
(* rule 3 of the Ographic descriptor of a triaxial body -- is an error and *)
(* adds no descriptor.                                                     *)
(***************************************************************************)
\* the line gets as far as a call of computeInverseFlattening
ReachesFlattening(t) ==
    /\ ~ AbsentNum(t.id) /\ ~ AbsentStr(t.body) /\ AxesAreNumbers(t)
    /\ \/ ~ TriaxialRow(t)
       \/ t.mean[1] > 0 /\ ~ Rule1Holds(t) /\ ~ Rule2Holds(t)

C18_NonPositiveSemiMajorIsAnError ==
    \A i \in Read :
        (Validated(i) /\ lines[i].semiMajor[1] <= 0 /\ ReachesFlattening(lines[i]))
        => /\ ~ computeInverseFlattening(lines[i].semiMajor, lines[i].semiMinor).ok
           /\ blocks[i].kind = "error"
           /\ blocks[i].crs = << >>

(***************************************************************************)
(* C19: every descriptor of the list comes from a line whose identifier is *)
(* a positive integer and whose mean radius, semi-major and semi-minor     *)
(* axis are all > 0: a line that fails this adds no descriptor.            *)
(***************************************************************************)
C19_DescriptorsComeFromPositiveRows ==
    /\ \A i \in Read : blocks[i].crs # << >> => PositiveRow(lines[i])
    /\ data # << >> => \E i \in Read : PositiveRow(lines[i])

(***************************************************************************)
(* C20: when the year of the file name is not an integer, is below 2015    *)
(* or is not one of 2000, 2009, 2015, IAUCatalog(file) fails: no line is   *)
(* read, nothing is written, and the program ends with a non-zero exit     *)
(* status.                                                                 *)
(***************************************************************************)
RejectedYear(y) ==
    \/ ~ YearIsInt(y)
    \/ YearValue(y) < 2015
    \/ y \notin {"2000", "2009", "2015"}

PublicationYears == {"2000", "2009", "2015"}

\* the reference block of year y is the first thing written, and the only
\* reference block
HeaderWrittenOnce(y) ==
    /\ output # << >>
    /\ output[1] = [kind |-> "references", key |-> <<"IAU", y>>]
    /\ \A k \in 2 .. Len(output) : output[k].kind # "references"
    /\ \E k \in 2 .. Len(output) : output[k].kind = "crs"

C22_OcentricVariantAndFields ==
    \A i \in Read : \A k \in EntriesOf(i, "Ocentric") :
        LET w == blocks[i].crs[k].wkt
            t == lines[i]
        IN  IF isTriaxial(FloatOfInt(t.semiMajor[1]), FloatOfInt(t.semiMinor[1]),
                          FloatOfInt(t.axisB[1]))
            THEN /\ w.cls = "TriaxialOcentricWKT"
                 /\ w.axes = Some([majorAxis |-> FloatOfInt(t.semiMajor[1]),
                                   minorAxis |-> FloatOfInt(t.semiMinor[1]),
                                   axisB     |-> FloatOfInt(t.axisB[1])])
                 /\ w.radius = FloatOfInt(t.mean[1])
                 /\ w.inverseFlattening = FloatOfInt(0)
                 /\ getWKT(w).figure =
                        <<"TRIAXIAL", w.sphereoidName, FloatOfInt(t.semiMajor[1]),
                          FloatOfInt(t.axisB[1]), FloatOfInt(t.semiMinor[1])>>
            ELSE /\ w.cls = "OcentricWKT"
                 /\ w.axes = None
                 /\ w.radius = FloatOfInt(t.mean[1])
                 /\ w.inverseFlattening
                        = computeInverseFlattening(t.semiMajor, t.semiMinor).val
                 /\ getWKT(w).figure =
                        <<"ELLIPSOID", w.sphereoidName, w.radius, w.inverseFlattening>>

\* an ellipsoid whose mean radius is not its semi-major axis, and a triaxial
\* body, are both told apart by the witness
C22_Witness ==
    \E i \in Read : \E k \in EntriesOf(i, "Ocentric") :
        LET w == blocks[i].crs[k].wkt
        IN  /\ w.cls = "OcentricWKT"
            /\ lines[i].mean = <<1>> /\ lines[i].semiMajor = <<MaxAxis>>
            /\ lines[i].semiMinor = <<1>> /\ lines[i].axisB = <<MaxAxis>>
            /\ w.radius = FloatOfInt(1)
            /\ w.inverseFlattening = Rat(MaxAxis, MaxAxis - 1)

(***************************************************************************)
(* C23: when a line has both an Ocentric and an Ographic descriptor, the   *)
(* Ographic one is the triaxial class exactly when the Ocentric one is.    *)
(* The triaxial Ographic descriptor carries the three semi-axes of the     *)
(* record, radius 1.0 and inverse flattening 0.0; the ellipsoid Ographic   *)
(* descriptor carries the mean radius as radius and                        *)
(* computeInverseFlattening(semiMajor, semiMinor) as inverse flattening.   *)
(***************************************************************************)
C23_OgraphicVariantAndFields ==
    \A i \in Read : \A k \in EntriesOf(i, "Ographic") :
        \A o \in EntriesOf(i, "Ocentric") :
            LET w == blocks[i].crs[k].wkt
                ocentric == blocks[i].crs[o].wkt
                t == lines[i]
            IN  /\ w.cls = "TriaxialOgraphicWKT" <=> ocentric.cls = "TriaxialOcentricWKT"
                /\ w.cls \in {"TriaxialOgraphicWKT", "OgraphicWKT"}
                /\ w.cls = "TriaxialOgraphicWKT" =>
                       /\ w.axes = Some([majorAxis |-> FloatOfInt(t.semiMajor[1]),
                                         minorAxis |-> FloatOfInt(t.semiMinor[1]),
                                         axisB     |-> FloatOfInt(t.axisB[1])])
                       /\ w.axes = ocentric.axes
                       /\ w.radius = FloatOfInt(1)
                       /\ w.inverseFlattening = FloatOfInt(0)
                /\ w.cls = "OgraphicWKT" =>
                       /\ w.axes = None
                       /\ w.radius = FloatOfInt(t.mean[1])
                       /\ w.inverseFlattening
                              = computeInverseFlattening(t.semiMajor, t.semiMinor).val
                       /\ w.inverseFlattening = ocentric.inverseFlattening

\* a triaxial body whose mean radius is not 1
C23_Witness ==
    \E i \in Read :
        /\ EntriesOf(i, "Ocentric") = {1} /\ EntriesOf(i, "Ographic") = {2}
        /\ blocks[i].crs[1].wkt.cls = "TriaxialOcentricWKT"
        /\ blocks[i].crs[2].wkt.cls = "TriaxialOgraphicWKT"
        /\ lines[i].mean = <<MaxAxis>>
        /\ blocks[i].crs[1].wkt.radius = FloatOfInt(MaxAxis)
        /\ blocks[i].crs[2].wkt.radius = FloatOfInt(1)

(***************************************************************************)
(* C24: a line is taken through validation, the Ocentric build, the        *)
(* Ographic build or its skip, the projected expansion and the emission,   *)
(* in that order and one line at a time: each step of processFile reads    *)
(* one more line, a line adds descriptors only if it passed validation,    *)
(* and its whole block is appended to the list at the end of the step.  In *)
(* the block the Ocentric descriptor is first, the Ographic descriptor, if *)
(* any, second, and then for each member of Projection in declaration      *)
(* order comes the projected-ocentric descriptor, built over the Ocentric  *)
(* one, immediately followed by its projected-ographic sibling, if any,    *)
(* built over the Ographic one.                                            *)
(***************************************************************************)
\* entry e is the ProjectedWKT of the given type for Projection[j] over base
IsProjectedOver(e, type, j, base) ==
    /\ e.type = type
    /\ e.wkt.cls = "ProjectedWKT"
    /\ e.wkt.planetProjected[1].PROJECTION_ENUM = Projection[j].name
    /\ e.wkt.planetWKT = Some(base.wkt)

BlockLayout(crs) ==
    \/ crs = << >>
    \/ /\ Len(crs) = 1 + Len(Projection)
       /\ crs[1].type = "Ocentric"
       /\ \A j \in 1 .. Len(Projection) :
              IsProjectedOver(crs[1 + j], "Projected ocentric", j, crs[1])
    \/ /\ Len(crs) = 2 + 2 * Len(Projection)
       /\ crs[1].type = "Ocentric"
       /\ crs[2].type = "Ographic"
       /\ \A j \in 1 .. Len(Projection) :
              /\ IsProjectedOver(crs[2 * j + 1], "Projected ocentric", j, crs[1])
              /\ IsProjectedOver(crs[2 * j + 2], "Projected ographic", j, crs[2])

KindAt(crs, k) ==
    IF Len(crs) = 2 + 2 * Len(Projection) THEN (k - 1) \div 2 ELSE k - 1

C25_ParametersAsDeclared ==
    \A i \in Read :
        LET crs == blocks[i].crs
        IN  \A k \in 1 .. Len(crs) :
                crs[k].wkt.cls = "ProjectedWKT" =>
                    LET text == getWKT(crs[k].wkt)
                    IN  /\ text.projection = Projection[KindAt(crs, k)].projection
                        /\ text.parameters = Projection[KindAt(crs, k)].parameters
                        /\ crs[k].wkt.planetProjected[1].PROJECTION_ENUM = "EQUIRECTANGULAR_0"
                               => text.parameters = << <<"False_Easting", "0">>,
                                                       <<"False_Northing", "0">>,
                                                       <<"Central_Meridian", "0">>,
                                                       <<"latitude_Of_Origin", "0">> >>
                        /\ crs[k].wkt.planetProjected[1].PROJECTION_ENUM = "SINUSOIDAL_180"
                               => text.parameters = << <<"False_Easting", "0">>,
                                                       <<"False_Northing", "0">>,
                                                       <<"Longitude_Of_Center", "180">> >>

\* a line with both bases: the two Sinusoidal (clon=180) descriptors, one over
\* the Ocentric and one over the Ographic descriptor, write the same list
C25_Witness ==
    \E i \in Read :
        LET crs == blocks[i].crs
        IN  /\ Len(crs) = 2 + 2 * Len(Projection)
            /\ crs[9].wkt.planetWKT[1].cls = "OcentricWKT"
            /\ crs[10].wkt.planetWKT[1].cls = "OgraphicWKT"
            /\ getWKT(crs[9].wkt).parameters = Projection[4].parameters
            /\ getWKT(crs[10].wkt).parameters = Projection[4].parameters
            /\ Len(getWKT(crs[10].wkt).parameters) = 3

(***************************************************************************)
(* C26: lines do not influence each other.  What a line contributes is     *)
(* computed from that line, the year and the authority group alone, and    *)
(* once processFile is over its result is the concatenation, in the order  *)
(* of the lines, of what each line read contributes; no line takes away    *)
(* the descriptors of another line.                                        *)
(***************************************************************************)
\* the contributions of the lines ls, each computed on its own, in order
RECURSIVE PerLineResults(_, _, _)
PerLineResults(ls, year, grp) ==
    IF ls = << >> THEN << >>
    ELSE LineOutcome(Head(ls), year, grp).crs \o PerLineResults(Tail(ls), year, grp)

\* what the caller of processFile receives: the list, or nothing when an
\* error left the loop
ProcessFileResult == IF pc = "aborted" THEN << >> ELSE data

C26_LinesDoNotInfluenceEachOther ==
    pc \in {"returned", "aborted"} =>
        ProcessFileResult = PerLineResults(lines, theYear[1], group[1])

(***************************************************************************)
(* C27: every descriptor the pipeline emits, of any of the five classes    *)
(* and over any base, answers both operations of the WKT contract: getWKT  *)
(* returns a text and getRecord returns a record, neither raises an error. *)
(***************************************************************************)
\* getWKT returns a text: one of the two templates, filled in
ReturnsText(w) == getWKT(w).keyword \in {"GEODCRS", "GEOGCRS", "PROJCS"}

C27_BothOperationsReturn ==
    \A i \in Read :
        \A k \in 1 .. Len(blocks[i].crs) :
            /\ ReturnsText(blocks[i].crs[k].wkt)
            /\ getRecord(blocks[i].crs[k].wkt).ok

(***************************************************************************)
(* C28: a line adds all of its block or nothing.  After any sequence of    *)
(* lines the list is made of the blocks of the lines, and each line has    *)
(* added no descriptor, or 1 + N descriptors (no Ographic descriptor), or  *)
(* 2 + 2N descriptors (Ographic descriptor built), N being the number of   *)
(* members of Projection; a line that ends in an error, also one whose     *)
(* Ocentric descriptor was built, adds nothing.                            *)
(***************************************************************************)
C28_AllOrNothing ==
    /\ data = BlocksInOrder(blocks)
    /\ \A i \in Read :
           LET n  == Len(blocks[i].crs)
               N  == Len(Projection)
               oc == Cardinality(EntriesOf(i, "Ocentric"))
               og == Cardinality(EntriesOf(i, "Ographic"))
           IN  /\ n \in {0, 1 + N, 2 + 2 * N}
               /\ n = 0 <=> oc = 0
               /\ n = 1 + N <=> (oc = 1 /\ og = 0)
               /\ n = 2 + 2 * N <=> (oc = 1 /\ og = 1)
               /\ blocks[i].kind # "crs" => n = 0
               /\ ~ OcentricFactoryCreate(setRecord(lines[i]), theYear[1], group[1]).ok
                      => n = 0

\* two lines read to the end of the file: one added 2 + 2N descriptors, the
\* other 1 + N
C28_Witness ==
    /\ pc = "returned"
    /\ Len(lines) = 2
    /\ Len(data) = 3 + 3 * Len(Projection)
    /\ \E i \in Read : Len(blocks[i].crs) = 1 + Len(Projection)

(***************************************************************************)
(* C29: every Ographic descriptor in the list whose longitude axis is east *)
(* comes from a line whose inverse flattening, computed from the           *)
(* semi-major and the semi-minor axis, is not zero; put the other way,     *)
(* every Ographic descriptor of a sphere has its longitude axis west, so   *)
(* no Ographic descriptor of a sphere repeats the east-positive Ocentric   *)
(* descriptor of its line.                                                 *)
(***************************************************************************)
\* the inverse flattening of line i, as rule 3 computes it
LineInverseFlattening(i) ==
    computeInverseFlattening(setRecord(lines[i]).SEMI_MAJOR,
                             setRecord(lines[i]).SEMI_MINOR)

C29_EastOgraphicIsNotASphere ==
    \A i \in Read :
        \A k \in EntriesOf(i, "Ographic") :
            LET w == blocks[i].crs[k].wkt
                f == LineInverseFlattening(i)
            IN  /\ f.ok
                /\ w.longitudeAxisOrder \in {Some("east"), Some("west")}
                /\ w.longitudeAxisOrder = Some("east") =>
                       /\ f.val.n # 0
                       /\ isDifferent(f.val, FloatOfInt(0))
                /\ isEqual(f.val, FloatOfInt(0)) =>
                       /\ w.longitudeAxisOrder = Some("west")
                       /\ getWKT(w).longAxis # getWKT(blocks[i].crs[1].wkt).longAxis

\* an Ographic descriptor with the longitude axis east, of a flattened body
C29_Witness ==
    \E i \in Read :
        \E k \in EntriesOf(i, "Ographic") :
            /\ blocks[i].crs[k].wkt.longitudeAxisOrder = Some("east")
            /\ lines[i].rotation = "Retrograde"
            /\ lines[i].semiMajor # lines[i].semiMinor
            /\ LineInverseFlattening(i).val.n # 0

(***************************************************************************)
(* C30: every Projected descriptor in the list wraps a descriptor that is  *)
(* in the list too, earlier in the block of the same line: the Ocentric    *)
(* descriptor of the line for a projected-ocentric entry, the Ographic     *)
(* descriptor of the line for a projected-ographic entry; and the          *)
(* geographic name, datum name, ellipsoid name, radius and inverse         *)
(* flattening of the Projected descriptor are those of the descriptor it   *)
(* wraps.                                                                  *)
(***************************************************************************)
\* entry e of the list is built over the earlier entry base of the given type
WrapsBase(e, base, type) ==
    /\ base.type = type
    /\ base.wkt.cls # "ProjectedWKT"
    /\ e.wkt.planetWKT = Some(base.wkt)
    /\ e.wkt.geogcsName = base.wkt.geogcsName
    /\ e.wkt.datumName = base.wkt.datumName
    /\ e.wkt.sphereoidName = base.wkt.sphereoidName
    /\ e.wkt.radius = base.wkt.radius
    /\ e.wkt.inverseFlattening = base.wkt.inverseFlattening

C30_ProjectedWrapsBaseOfItsLine ==
    \A i \in Read :
        \A k \in 1 .. Len(blocks[i].crs) :
            LET e == data[Offset(i) + k]
            IN  /\ e.type \in {"Projected ocentric", "Projected ographic"}
                       <=> e.wkt.cls = "ProjectedWKT"
                /\ e.type = "Projected ocentric" =>
                       (k > 1 /\ WrapsBase(e, data[Offset(i) + 1], "Ocentric"))
                /\ e.type = "Projected ographic" =>
                       (k > 2 /\ WrapsBase(e, data[Offset(i) + 2], "Ographic"))

\* a triaxial body with both bases: the last entry of its block is built over
\* the TriaxialOgraphicWKT in second place and carries its radius 1.0 and
\* its inverse flattening 0.0
C30_Witness ==
    \E i \in Read :
        LET n == Len(blocks[i].crs)
        IN  /\ n = 2 + 2 * Len(Projection)
            /\ data[Offset(i) + 2].wkt.cls = "TriaxialOgraphicWKT"
            /\ data[Offset(i) + n].type = "Projected ographic"
            /\ WrapsBase(data[Offset(i) + n], data[Offset(i) + 2], "Ographic")
            /\ data[Offset(i) + n].wkt.radius = FloatOfInt(1)
            /\ data[Offset(i) + n].wkt.inverseFlattening = FloatOfInt(0)

====
